---------------------------- MODULE Spec2Model ----------------------------
(***************************************************************************)
(* Model of src/operations.py: DecimalEncoder, OperationsDynamo and        *)
(* OperationsSQL.  Python values are tagged records so that an int, a      *)
(* float, a Decimal, False and None stay distinct, as they are in Python.  *)
(***************************************************************************)
EXTENDS Integers, Sequences, FiniteSets, TLC

VARIABLES
    raw, once, twice, cstage,                 \* the codec specification
    pages, pc, op, args, query, response,     \* one OperationsDynamo/SQL invocation
    data, result, log, calls, replies, faulted,
    lastKey, received, rounds,                \* the caller's scanPaginate loop
    cpages, cop, cinput, cframe               \* interleaved invocations

codecVars == <<raw, once, twice, cstage>>
invVars ==
    <<pages, pc, op, args, query, response, data, result, log, calls, replies, faulted>>
callerVars == <<lastKey, received, rounds>>
concVars == <<cpages, cop, cinput, cframe>>
vars == <<codecVars, invVars, callerVars, concVars>>

---------------------------------------------------------------------------
(* Bounds of the model. *)
MaxCoeff == 12
MaxScale == 2
MaxPages == 3
MaxPageLen == 2
MaxRows == 12
MaxPagina == 3
MaxLimite == 5
ConcMaxPages == 3
ConcMaxPageLen == 1

---------------------------------------------------------------------------
(* Python values. *)
Dec(c, e) == [kind |-> "decimal", coeff |-> c, exp |-> e]
PyInt(n) == [kind |-> "int", n |-> n]
PyFloat(c, e) == [kind |-> "float", coeff |-> c, exp |-> e]
PyStr(s) == [kind |-> "str", s |-> s]
PyBool(b) == [kind |-> "bool", b |-> b]
PyNone == [kind |-> "none"]
PyList(xs) == [kind |-> "list", items |-> xs]
PyDict(ks, vs) == [kind |-> "dict", keys |-> ks, vals |-> vs]

RECURSIVE Pow10(_)
Pow10(n) == IF n <= 0 THEN 1 ELSE 10 * Pow10(n - 1)

Abs(n) == IF n < 0 THEN -n ELSE n
Sign(n) == IF n < 0 THEN -1 ELSE 1
Min(a, b) == IF a < b THEN a ELSE b

(* decimal.Decimal.__mod__ with 1: the remainder keeps the dividend's sign. *)
DecimalMod1(o) ==
    IF o.exp >= 0 THEN Dec(0, 0)
    ELSE Dec(Sign(o.coeff) * (Abs(o.coeff) % Pow10(-o.exp)), o.exp)

(* bool(Decimal): a Decimal is falsy exactly when it is zero. *)
DecimalTruthy(o) == o.coeff # 0

(* int(Decimal): truncation toward zero. *)
DecimalToInt(o) ==
    IF o.exp >= 0 THEN PyInt(o.coeff * Pow10(o.exp))
    ELSE PyInt(Sign(o.coeff) * (Abs(o.coeff) \div Pow10(-o.exp)))

(* float(Decimal): the double nearest to the value; 1.50 and 1.5 are the   *)
(* same float, so the float is kept in lowest terms (coeff * 10^exp).      *)
RECURSIVE FloatOf(_, _)
FloatOf(c, e) ==
    IF c = 0 THEN PyFloat(0, 0)
    ELSE IF e > 0 THEN PyFloat(c * Pow10(e), 0)
    ELSE IF e < 0 /\ c % 10 = 0 THEN FloatOf(c \div 10, e + 1)
    ELSE PyFloat(c, e)

DecimalToFloat(o) == FloatOf(o.coeff, o.exp)

DefaultTruncates(o) ==
    IF o.kind = "decimal" THEN DecimalToInt(o) ELSE [kind |-> "TypeError"]

(* DecimalEncoder.default *)
Default(o) ==
    IF o.kind = "decimal"
    THEN IF DecimalTruthy(DecimalMod1(o)) THEN DecimalToFloat(o) ELSE DecimalToInt(o)
    ELSE [kind |-> "TypeError"]

(* json.dumps(o, cls=DecimalEncoder): the JSON document as a tree.  An int *)
(* is written as an integer literal, a float by repr (always with a        *)
(* fraction or exponent), and default() is asked for anything else.        *)
RECURSIVE JsonDumps(_)
JsonDumps(o) ==
    CASE o.kind = "int" -> [kind |-> "jint", n |-> o.n]
      [] o.kind = "float" -> [kind |-> "jreal", coeff |-> o.coeff, exp |-> o.exp]
      [] o.kind = "str" -> [kind |-> "jstring", s |-> o.s]
      [] o.kind = "bool" -> [kind |-> "jbool", b |-> o.b]
      [] o.kind = "none" -> [kind |-> "jnull"]
      [] o.kind = "list" ->
            [kind |-> "jarray",
             items |-> [i \in 1..Len(o.items) |-> JsonDumps(o.items[i])]]
      [] o.kind = "dict" ->
            [kind |-> "jobject", keys |-> o.keys,
             vals |-> [i \in 1..Len(o.vals) |-> JsonDumps(o.vals[i])]]
      [] o.kind = "decimal" -> JsonDumps(Default(o))

(* json.loads *)
RECURSIVE JsonLoads(_)
JsonLoads(j) ==
    CASE j.kind = "jint" -> PyInt(j.n)
      [] j.kind = "jreal" -> PyFloat(j.coeff, j.exp)
      [] j.kind = "jstring" -> PyStr(j.s)
      [] j.kind = "jbool" -> PyBool(j.b)
      [] j.kind = "jnull" -> PyNone
      [] j.kind = "jarray" ->
            PyList([i \in 1..Len(j.items) |-> JsonLoads(j.items[i])])
      [] j.kind = "jobject" ->
            PyDict(j.keys, [i \in 1..Len(j.vals) |-> JsonLoads(j.vals[i])])

(* json.loads(json.dumps(x, indent=4, cls=DecimalEncoder)) *)
Normalize(x) == JsonLoads(JsonDumps(x))

---------------------------------------------------------------------------
(* The codec specification: a backend value is normalized, and the result  *)
(* is normalized once more.                                                *)
Decimals == {Dec(c, e) : c \in (-MaxCoeff)..MaxCoeff, e \in (-MaxScale)..1}
PlainLeaves ==
    {PyStr("a"), PyStr(""), PyBool(TRUE), PyBool(FALSE), PyNone, PyInt(3),
     PyFloat(5, -1)}
FewDecimals == {Dec(10, -1), Dec(15, -1), Dec(-7, 0), Dec(-25, -2)}
Leaves == Decimals \cup PlainLeaves
Inner ==
    FewDecimals \cup PlainLeaves
      \cup {PyList(<<d, p>>) : d \in FewDecimals, p \in PlainLeaves}
      \cup {PyDict(<<"valor">>, <<d>>) : d \in FewDecimals}
CodecInputs ==
    Leaves
      \cup {PyList(<<>>), PyDict(<<>>, <<>>)}
      \cup {PyList(<<x>>) : x \in Leaves}
      \cup {PyDict(<<"id", "valor">>, <<x, y>>) : x \in PlainLeaves, y \in Inner}
      \cup {PyList(<<x, y>>) : x \in Inner, y \in FewDecimals}

Unset == [kind |-> "unset"]

CodecIdle ==
    /\ raw = Unset /\ once = Unset /\ twice = Unset /\ cstage = "off"

CodecInit ==
    /\ raw \in CodecInputs
    /\ once = Unset
    /\ twice = Unset
    /\ cstage = "raw"

NormalizeOnce ==
    /\ cstage = "raw"
    /\ once' = Normalize(raw)
    /\ cstage' = "once"
    /\ UNCHANGED <<raw, twice>>

NormalizeAgain ==
    /\ cstage = "once"
    /\ twice' = Normalize(once)
    /\ cstage' = "twice"
    /\ UNCHANGED <<raw, once>>

---------------------------------------------------------------------------
(* The document-store backend behind the handle `tabela`.  Its records are *)
(* kept in sort-key order; a query without a start key reads from the head *)
(* of the stream in the requested direction, and the backend divides the   *)
(* stream into pages as it sees fit (a page may hold no record and still   *)
(* carry a continuation key).  Numbers arrive as Decimal.                  *)
Absent == [kind |-> "absent"]
NoLimit == 0

Item(k) ==
    PyDict(<<"id", "sk", "valor">>, <<PyStr("p"), Dec(k, 0), Dec(5 * k, -1)>>)

RECURSIVE SumTo(_, _)
SumTo(lens, i) == IF i = 0 THEN 0 ELSE lens[i] + SumTo(lens, i - 1)

(* Pages of the descending stream holding lens[i] records each. *)
PagesOf(lens) ==
    LET total == SumTo(lens, Len(lens))
    IN  [i \in 1..Len(lens) |->
            [j \in 1..lens[i] |-> Item(total - SumTo(lens, i - 1) - j + 1)]]

PageConfigs ==
    {PagesOf(lens) : lens \in UNION {[1..n -> 0..MaxPageLen] : n \in 1..MaxPages}}

RECURSIVE Flatten(_)
Flatten(pgs) == IF pgs = <<>> THEN <<>> ELSE Head(pgs) \o Flatten(Tail(pgs))

Reverse(s) == [i \in 1..Len(s) |-> s[Len(s) + 1 - i]]

Mirror(pgs) == [i \in 1..Len(pgs) |-> Reverse(pgs[Len(pgs) + 1 - i])]

SortKeys(pgs) == {Flatten(pgs)[i].vals[2].coeff : i \in 1..Len(Flatten(pgs))}

(* A continuation key: `page` whole pages and `off` records of the next    *)
(* page have been read. *)
Cursor(p, o) == [kind |-> "key", page |-> p, off |-> o]

(* tabela.query with keyword arguments q, when the backend signals no fault. *)
Query(pgs, q) ==
    LET stream == IF q.ScanIndexForward THEN Mirror(pgs) ELSE pgs
        start == IF q.ExclusiveStartKey = Absent THEN Cursor(0, 0)
                 ELSE q.ExclusiveStartKey
        page == stream[start.page + 1]
        rest == SubSeq(page, start.off + 1, Len(page))
        cut == q.Limit # NoLimit /\ Len(rest) > q.Limit
        items == IF cut THEN SubSeq(rest, 1, q.Limit) ELSE rest
        lek == IF cut THEN Cursor(start.page, start.off + q.Limit)
               ELSE IF start.page + 1 < Len(stream) THEN Cursor(start.page + 1, 0)
               ELSE Absent
    IN  IF q.Select = "COUNT"
        THEN [Items |-> Absent, Count |-> PyInt(Len(items)), LastEvaluatedKey |-> lek]
        ELSE [Items |-> PyList(items), Count |-> PyInt(Len(items)),
              LastEvaluatedKey |-> lek]

(* tabela.get_item(Key=params) when the backend signals no fault. *)
GetItem(pgs, k) ==
    IF k \in SortKeys(pgs) THEN [Item |-> Item(k)] ELSE [Item |-> Absent]

(* dict.get(key): None when the key is absent. *)
DictGet(v) == IF v = Absent THEN PyNone ELSE v

(* Python truth value of what the operations test with `if x:`. *)
Truthy(v) ==
    CASE v.kind = "list" -> Len(v.items) > 0
      [] v.kind = "dict" -> Len(v.keys) > 0
      [] v.kind = "key" -> TRUE
      [] v.kind = "none" -> FALSE
      [] v.kind = "absent" -> FALSE

False == PyBool(FALSE)
Raised == [kind |-> "raised", exc |-> "ClientError"]
NoResponse == [kind |-> "noresponse"]

(* The keyword arguments the operations build for tabela.query. *)
QueryArgs(forward, limit, startKey, select) ==
    [KeyConditionExpression |-> "pk = :p", ScanIndexForward |-> forward,
     Limit |-> limit, ExclusiveStartKey |-> startKey, Select |-> select]

NoArgs ==
    [key |-> 0, limit |-> 0, pagina |-> 0, rows |-> 0, condicao |-> "",
     campo_ordenar |-> "", ordenacao |-> ""]

---------------------------------------------------------------------------
(* One invocation.  The handle and the other inputs are arguments of the   *)
(* call, so each operation draws them when it is called.                   *)
InvIdle ==
    /\ pages = <<>> /\ pc = "idle" /\ op = "" /\ args = NoArgs
    /\ query = Absent /\ response = NoResponse /\ data = <<>>
    /\ result = Unset /\ log = <<>> /\ calls = <<>> /\ replies = <<>>
    /\ faulted = FALSE

CallerIdle == lastKey = PyNone /\ received = <<>> /\ rounds = 0

(* The local state of one invocation: where it is, its local variables,   *)
(* what it returned and logged, and the backend calls it has made.         *)
Frame(at, q, resp, d, res, lg, cs, rs, f) ==
    [pc |-> at, query |-> q, response |-> resp, data |-> d, result |-> res,
     log |-> lg, calls |-> cs, replies |-> rs, faulted |-> f]

IdleFrame == Frame("idle", Absent, NoResponse, <<>>, Unset, <<>>, <<>>, <<>>, FALSE)

(* The frame becomes the state of the invocation under way. *)
Install(st, at) ==
    /\ pc' = at /\ query' = st.query /\ response' = st.response
    /\ data' = st.data /\ result' = st.result /\ log' = st.log
    /\ calls' = st.calls /\ replies' = st.replies /\ faulted' = st.faulted

Current == Frame(pc, query, response, data, result, log, calls, replies, faulted)

(* What is common to the operations that make one query and return its     *)
(* items: try / except ClientError / else, as in lines 113-122.            *)
ReturnsItems(tabela, q, fault) ==
    LET resp == Query(tabela, q)
        items == DictGet(resp.Items)
    IN  IF fault
        THEN Frame("done", q, NoResponse, <<>>, False, <<"error">>, <<q>>, <<>>, TRUE)
        ELSE IF Truthy(items)
        THEN Frame("done", q, resp, <<>>, Normalize(items), <<>>, <<q>>, <<resp>>,
                   FALSE)
        ELSE Frame("done", q, resp, <<>>, False, <<"warning">>, <<q>>, <<resp>>,
                   FALSE)

GetWarningOnFault(tabela, k, fault) ==
    LET resp == GetItem(tabela, k)
        item == DictGet(resp.Item)
    IN  IF fault
        THEN Frame("done", Absent, NoResponse, <<>>, False, <<"warning">>, <<>>,
                   <<>>, TRUE)
        ELSE IF Truthy(item)
        THEN Frame("done", Absent, resp, <<>>, Normalize(item), <<>>, <<>>,
                   <<resp>>, FALSE)
        ELSE Frame("done", Absent, resp, <<>>, False, <<"warning">>, <<>>,
                   <<resp>>, FALSE)

(* OperationsDynamo.get *)
GetReturns(tabela, k, fault) ==
    LET resp == GetItem(tabela, k)
        item == DictGet(resp.Item)
    IN  IF fault
        THEN Frame("done", Absent, NoResponse, <<>>, False, <<"error">>, <<>>, <<>>,
                   TRUE)
        ELSE IF Truthy(item)
        THEN Frame("done", Absent, resp, <<>>, Normalize(item), <<>>, <<>>,
                   <<resp>>, FALSE)
        ELSE Frame("done", Absent, resp, <<>>, False, <<"warning">>, <<>>,
                   <<resp>>, FALSE)

Get ==
    /\ pc = "idle"
    /\ \E pgs \in PageConfigs, k \in 1..(MaxPages * MaxPageLen), fault \in BOOLEAN :
        /\ pages' = pgs /\ op' = "get" /\ args' = [NoArgs EXCEPT !.key = k]
        /\ Install(GetReturns(pgs, k, fault), "done")
        /\ UNCHANGED <<codecVars, callerVars, concVars>>

(* OperationsDynamo.getByIndex: no direction and no limit are passed. *)
GetByIndex ==
    /\ pc = "idle"
    /\ \E pgs \in PageConfigs, fault \in BOOLEAN :
        /\ pages' = pgs /\ op' = "getByIndex" /\ args' = NoArgs
        /\ Install(ReturnsItems(pgs, QueryArgs(TRUE, NoLimit, Absent, "ALL"), fault),
                   "done")
        /\ UNCHANGED <<codecVars, callerVars, concVars>>

(* OperationsDynamo.listAll *)
ListAll ==
    /\ pc = "idle"
    /\ \E pgs \in PageConfigs, fault \in BOOLEAN :
        /\ pages' = pgs /\ op' = "listAll" /\ args' = NoArgs
        /\ Install(ReturnsItems(pgs, QueryArgs(FALSE, NoLimit, Absent, "ALL"), fault),
                   "done")
        /\ UNCHANGED <<codecVars, callerVars, concVars>>

ScansBackward == FALSE

(* OperationsDynamo.getFirstRegistry: 'ScanIndexForward': True, 'Limit': 1 *)
FirstRegistryForward == TRUE

GetFirstRegistry ==
    /\ pc = "idle"
    /\ \E pgs \in PageConfigs, fault \in BOOLEAN :
        /\ pages' = pgs /\ op' = "getFirstRegistry" /\ args' = NoArgs
        /\ Install(ReturnsItems(pgs, QueryArgs(FirstRegistryForward, 1, Absent, "ALL"),
                                fault), "done")
        /\ UNCHANGED <<codecVars, callerVars, concVars>>

(* OperationsDynamo.getLastRegistry: 'ScanIndexForward': False, 'Limit': 1 *)
LastRegistryForward == FALSE

GetLastRegistry ==
    /\ pc = "idle"
    /\ \E pgs \in PageConfigs, fault \in BOOLEAN :
        /\ pages' = pgs /\ op' = "getLastRegistry" /\ args' = NoArgs
        /\ Install(ReturnsItems(pgs, QueryArgs(LastRegistryForward, 1, Absent, "ALL"),
                                fault), "done")
        /\ UNCHANGED <<codecVars, callerVars, concVars>>

(* OperationsDynamo.scanFilter *)
ScanFilter ==
    /\ pc = "idle"
    /\ \E pgs \in PageConfigs, limit \in 1..MaxPageLen, fault \in BOOLEAN :
        /\ pages' = pgs /\ op' = "scanFilter"
        /\ args' = [NoArgs EXCEPT !.limit = limit]
        /\ Install(ReturnsItems(pgs, QueryArgs(FALSE, limit, Absent, "ALL"), fault),
                   "done")
        /\ UNCHANGED <<codecVars, callerVars, concVars>>

CountQueryTestingTruth(tabela, fault, counted) ==
    LET q == QueryArgs(FALSE, NoLimit, Absent, "COUNT")
        full == Query(tabela, q)
        resp == IF counted THEN full ELSE [full EXCEPT !.Count = Absent]
        count == DictGet(resp.Count)
    IN  IF fault
        THEN Frame("done", q, NoResponse, <<>>, False, <<"error">>, <<q>>, <<>>, TRUE)
        ELSE IF count # PyNone /\ count.n # 0
        THEN Frame("done", q, resp, <<>>, count, <<>>, <<q>>, <<resp>>, FALSE)
        ELSE Frame("done", q, resp, <<>>, False, <<"warning">>, <<q>>, <<resp>>,
                   FALSE)

(* OperationsDynamo.countQuery.  `counted` is whether the backend's answer *)
(* carries a Count. *)
CountQueryReturns(tabela, fault, counted) ==
    LET q == QueryArgs(FALSE, NoLimit, Absent, "COUNT")
        full == Query(tabela, q)
        resp == IF counted THEN full ELSE [full EXCEPT !.Count = Absent]
        count == DictGet(resp.Count)
    IN  IF fault
        THEN Frame("done", q, NoResponse, <<>>, False, <<"error">>, <<q>>, <<>>, TRUE)
        ELSE IF count # PyNone
        THEN Frame("done", q, resp, <<>>, count, <<>>, <<q>>, <<resp>>, FALSE)
        ELSE Frame("done", q, resp, <<>>, False, <<"warning">>, <<q>>, <<resp>>,
                   FALSE)

CountQuery ==
    /\ pc = "idle"
    /\ \E pgs \in PageConfigs, fault \in BOOLEAN, counted \in BOOLEAN :
        /\ pages' = pgs /\ op' = "countQuery" /\ args' = NoArgs
        /\ Install(CountQueryReturns(pgs, fault, counted), "done")
        /\ UNCHANGED <<codecVars, callerVars, concVars>>

(* OperationsDynamo.listAllPaginate, lines 170-187 and 193-194: the first  *)
(* query, inside try / except ClientError. *)
ListAllPaginateFirst(tabela, fault) ==
    LET q == QueryArgs(FALSE, NoLimit, Absent, "ALL")
        resp == Query(tabela, q)
        items == DictGet(resp.Items)
    IN  IF fault
        THEN Frame("done", q, NoResponse, <<>>, False, <<"error">>, <<q>>, <<>>, TRUE)
        ELSE IF Truthy(items)
        THEN Frame("loop", q, resp, items.items, Unset, <<>>, <<q>>, <<resp>>, FALSE)
        ELSE Frame("done", q, resp, <<>>, False, <<"warning">>, <<q>>, <<resp>>,
                   FALSE)

(* Whether the while loop of line 188 runs once more. *)
LoopContinues(st) == st.response.LastEvaluatedKey # Absent

(* Lines 189-191: one turn of the while loop.  The query is outside the    *)
(* try block, so a ClientError leaves the operation as an exception.       *)
ListAllPaginateTurn(tabela, st, fault) ==
    LET q == [st.query EXCEPT !.ExclusiveStartKey = st.response.LastEvaluatedKey]
        resp == Query(tabela, q)
    IN  IF fault
        THEN [st EXCEPT !.pc = "done", !.query = q, !.result = Raised,
                        !.calls = Append(st.calls, q), !.faulted = TRUE]
        ELSE [st EXCEPT !.query = q, !.response = resp,
                        !.data = st.data \o resp.Items.items,
                        !.calls = Append(st.calls, q),
                        !.replies = Append(st.replies, resp)]

(* Line 192: the loop has ended. *)
ListAllPaginateEnd(st) ==
    [st EXCEPT !.pc = "done", !.result = Normalize(PyList(st.data))]

ScanPaginateCallFromStart(tabela, startKey, limit, fault) ==
    LET q == QueryArgs(FALSE, limit, Absent, "ALL")
        resp == Query(tabela, q)
        items == DictGet(resp.Items)
        nothing == PyDict(<<"lastKey", "results">>, <<PyNone, PyList(<<>>)>>)
    IN  IF fault
        THEN Frame("done", q, NoResponse, <<>>, nothing, <<"error">>, <<q>>, <<>>,
                   TRUE)
        ELSE IF Truthy(items)
        THEN Frame("done", q, resp, <<>>,
                   PyDict(<<"lastKey", "results">>,
                          <<DictGet(resp.LastEvaluatedKey), Normalize(items)>>),
                   <<>>, <<q>>, <<resp>>, FALSE)
        ELSE Frame("done", q, resp, <<>>, nothing, <<"warning">>, <<q>>, <<resp>>,
                   FALSE)

(* OperationsDynamo.scanPaginate *)
ScanPaginateCall(tabela, startKey, limit, fault) ==
    LET q == QueryArgs(FALSE, limit, IF Truthy(startKey) THEN startKey ELSE Absent,
                       "ALL")
        resp == Query(tabela, q)
        items == DictGet(resp.Items)
        nothing == PyDict(<<"lastKey", "results">>, <<PyNone, PyList(<<>>)>>)
    IN  IF fault
        THEN Frame("done", q, NoResponse, <<>>, nothing, <<"error">>, <<q>>, <<>>,
                   TRUE)
        ELSE IF Truthy(items)
        THEN Frame("done", q, resp, <<>>,
                   PyDict(<<"lastKey", "results">>,
                          <<DictGet(resp.LastEvaluatedKey), Normalize(items)>>),
                   <<>>, <<q>>, <<resp>>, FALSE)
        ELSE Frame("done", q, resp, <<>>, nothing, <<"warning">>, <<q>>, <<resp>>,
                   FALSE)

ListAllPaginate ==
    /\ pc = "idle"
    /\ \E pgs \in PageConfigs, fault \in BOOLEAN :
        LET st == ListAllPaginateFirst(pgs, fault)
        IN  /\ pages' = pgs /\ op' = "listAllPaginate" /\ args' = NoArgs
            /\ Install(st, st.pc)
            /\ UNCHANGED <<codecVars, callerVars, concVars>>

ListAllPaginateNext ==
    /\ pc = "loop"
    /\ LoopContinues(Current)
    /\ \E fault \in BOOLEAN :
        LET st == ListAllPaginateTurn(pages, Current, fault)
        IN  Install(st, st.pc)
    /\ UNCHANGED <<pages, op, args, codecVars, callerVars, concVars>>

ListAllPaginateReturn ==
    /\ pc = "loop"
    /\ ~LoopContinues(Current)
    /\ LET st == ListAllPaginateEnd(Current)
       IN  Install(st, st.pc)
    /\ UNCHANGED <<pages, op, args, codecVars, callerVars, concVars>>

(* A caller of scanPaginate that starts without a key and feeds the        *)
(* returned key back, with the same handle and limit, until it is None.    *)
ScanPaginate ==
    /\ pc \in {"idle", "caller"}
    /\ \E pgs \in IF pc = "idle" THEN PageConfigs ELSE {pages},
          limit \in IF pc = "idle" THEN 1..MaxPageLen ELSE {args.limit},
          fault \in BOOLEAN :
        LET st == ScanPaginateCall(pgs, lastKey, limit, fault)
        IN  /\ pages' = pgs /\ op' = "scanPaginate"
            /\ args' = [NoArgs EXCEPT !.limit = limit]
            /\ Install(st, "returned")
            /\ rounds' = rounds + 1
    /\ UNCHANGED <<lastKey, received, codecVars, concVars>>

CallerTakes ==
    /\ pc = "returned"
    /\ received' = received \o result.vals[2].items
    /\ lastKey' = result.vals[1]
    /\ pc' = IF result.vals[1] = PyNone THEN "done" ELSE "caller"
    /\ UNCHANGED <<pages, op, args, query, response, data, result, log, calls,
                   replies, faulted, rounds, codecVars, concVars>>

---------------------------------------------------------------------------
(* The relational backend behind django.db.connection.  The statement is   *)
(* kept in its clauses; `n` is the number of rows the statement selects    *)
(* before LIMIT and OFFSET, in the statement's order.                      *)
Max(a, b) == IF a > b THEN a ELSE b

Execute(stmt, n) ==
    [description |-> <<"id">>,
     rows |-> [i \in 1..Max(0, Min(stmt.limit, n - stmt.offset)) |->
                  <<PyInt(stmt.offset + i)>>]]

ExecuteCount(stmt, n) ==
    [description |-> <<"total">>, rows |-> << <<PyInt(n)>> >>]

(* [dict(zip(columns, row)) for row in cursor.fetchall()] *)
Rows(cur) ==
    PyList([i \in 1..Len(cur.rows) |-> PyDict(cur.description, cur.rows[i])])

OffsetOfNextPage(pagina, limite_por_pagina) == pagina * limite_por_pagina

(* Line 301 *)
Offset(pagina, limite_por_pagina) == (pagina - 1) * limite_por_pagina

(* Lines 303-320 *)
FilterStatement(a) ==
    [select |-> "*", from |-> "tabela", join |-> "",
     where |-> IF a.condicao # "" THEN "WHERE " \o a.condicao ELSE "",
     order |-> IF a.campo_ordenar # "" /\ a.ordenacao # ""
               THEN "ORDER BY " \o a.campo_ordenar \o " " \o a.ordenacao ELSE "",
     limit |-> a.limit, offset |-> Offset(a.pagina, a.limit)]

(* Lines 337-347 *)
CountStatement(a) ==
    [select |-> "COUNT(id) AS total", from |-> "tabela", join |-> "",
     where |-> IF a.condicao # "" THEN "WHERE " \o a.condicao ELSE ""]

(* What is common to OperationsSQL.filter and OperationsSQL.count: execute *)
(* and fetch inside try / except Exception. *)
SqlReturns(stmt, cur, fault) ==
    IF fault
    THEN Frame("done", stmt, NoResponse, <<>>, PyList(<<>>), <<"error">>, <<stmt>>,
               <<>>, TRUE)
    ELSE Frame("done", stmt, NoResponse, <<>>, Rows(cur), <<>>, <<stmt>>, <<>>, FALSE)

(* OperationsSQL.filter *)
SqlFilter ==
    /\ pc = "idle"
    /\ \E n \in 0..MaxRows, pagina \in 1..MaxPagina, limite \in 1..MaxLimite,
          condicao \in {"", "ativo = 1"}, ordered \in BOOLEAN, fault \in BOOLEAN :
        LET a == [NoArgs EXCEPT !.rows = n, !.pagina = pagina, !.limit = limite,
                                !.condicao = condicao,
                                !.campo_ordenar = IF ordered THEN "id" ELSE "",
                                !.ordenacao = IF ordered THEN "ASC" ELSE ""]
            stmt == FilterStatement(a)
        IN  /\ pages' = <<>> /\ op' = "filter" /\ args' = a
            /\ Install(SqlReturns(stmt, Execute(stmt, n), fault), "done")
            /\ UNCHANGED <<codecVars, callerVars, concVars>>

(* OperationsSQL.count *)
SqlCount ==
    /\ pc = "idle"
    /\ \E n \in 0..MaxRows, condicao \in {"", "ativo = 1"}, fault \in BOOLEAN :
        LET a == [NoArgs EXCEPT !.rows = n, !.condicao = condicao]
            stmt == CountStatement(a)
        IN  /\ pages' = <<>> /\ op' = "count" /\ args' = a
            /\ Install(SqlReturns(stmt, ExecuteCount(stmt, n), fault), "done")
            /\ UNCHANGED <<codecVars, callerVars, concVars>>

(* The call has returned; the caller makes another one. *)
NextCall ==
    /\ pc = "done"
    /\ pages' = <<>> /\ op' = "" /\ args' = NoArgs
    /\ Install(IdleFrame, "idle")
    /\ lastKey' = PyNone /\ received' = <<>> /\ rounds' = 0
    /\ UNCHANGED <<codecVars, concVars>>

ConcIdle == cpages = <<>> /\ cop = <<>> /\ cinput = <<>> /\ cframe = <<>>

Init == CodecIdle /\ InvIdle /\ CallerIdle /\ ConcIdle

Next ==
    \/ Get
    \/ GetByIndex
    \/ ListAll
    \/ GetFirstRegistry
    \/ GetLastRegistry
    \/ ScanFilter
    \/ CountQuery
    \/ ListAllPaginate
    \/ ListAllPaginateNext
    \/ ListAllPaginateReturn
    \/ ScanPaginate
    \/ CallerTakes
    \/ SqlFilter
    \/ SqlCount
    \/ NextCall

Spec == Init /\ [][Next]_vars

---------------------------------------------------------------------------
(* The codec on its own: every input of CodecInputs is normalized twice.   *)
InitCodec == CodecInit /\ InvIdle /\ CallerIdle /\ ConcIdle

NextCodec ==
    \/ NormalizeOnce /\ UNCHANGED <<invVars, callerVars, concVars>>
    \/ NormalizeAgain /\ UNCHANGED <<invVars, callerVars, concVars>>

SpecCodec == InitCodec /\ [][NextCodec]_vars

---------------------------------------------------------------------------
(* Invocations interleaved at the backend calls, against one handle whose  *)
(* data does not change.  Each invocation has its own frame: query,        *)
(* response and data are local variables of the static method.             *)
Procs == {1, 2}

ConcPageConfigs ==
    {PagesOf(lens) :
        lens \in UNION {[1..n -> 0..ConcMaxPageLen] : n \in 1..ConcMaxPages}}

StartKeys(pgs) == {PyNone} \cup {Cursor(k, 0) : k \in 1..(Len(pgs) - 1)}

ViewSharingResponse(p) ==
    IF cframe[1].response = NoResponse THEN cframe[p]
    ELSE [cframe[p] EXCEPT !.response = cframe[1].response]

(* The local variables invocation p reads. *)
View(p) == cframe[p]

InitConc ==
    /\ CodecIdle /\ InvIdle /\ CallerIdle
    /\ cpages \in ConcPageConfigs
    /\ cop = [p \in Procs |-> ""]
    /\ cinput = [p \in Procs |-> PyNone]
    /\ cframe = [p \in Procs |-> IdleFrame]

ConcListAllPaginate(p) ==
    /\ View(p).pc = "idle"
    /\ \E fault \in BOOLEAN :
        cframe' = [cframe EXCEPT ![p] = ListAllPaginateFirst(cpages, fault)]
    /\ cop' = [cop EXCEPT ![p] = "listAllPaginate"]
    /\ UNCHANGED <<cpages, cinput, codecVars, invVars, callerVars>>

ConcListAllPaginateNext(p) ==
    /\ View(p).pc = "loop"
    /\ LoopContinues(View(p))
    /\ \E fault \in BOOLEAN :
        cframe' = [cframe EXCEPT ![p] = ListAllPaginateTurn(cpages, View(p), fault)]
    /\ UNCHANGED <<cpages, cop, cinput, codecVars, invVars, callerVars>>

ConcListAllPaginateReturn(p) ==
    /\ View(p).pc = "loop"
    /\ ~LoopContinues(View(p))
    /\ cframe' = [cframe EXCEPT ![p] = ListAllPaginateEnd(View(p))]
    /\ UNCHANGED <<cpages, cop, cinput, codecVars, invVars, callerVars>>

ConcScanPaginate(p) ==
    /\ View(p).pc = "idle"
    /\ \E key \in StartKeys(cpages), fault \in BOOLEAN :
        /\ cframe' = [cframe EXCEPT
                        ![p] = ScanPaginateCall(cpages, key, ConcMaxPageLen, fault)]
        /\ cinput' = [cinput EXCEPT ![p] = key]
    /\ cop' = [cop EXCEPT ![p] = "scanPaginate"]
    /\ UNCHANGED <<cpages, codecVars, invVars, callerVars>>

NextConc ==
    \E p \in Procs :
        \/ ConcListAllPaginate(p)
        \/ ConcListAllPaginateNext(p)
        \/ ConcListAllPaginateReturn(p)
        \/ ConcScanPaginate(p)

SpecConc == InitConc /\ [][NextConc]_vars

(* listAllPaginate run alone, from frame st to its end; the backend call   *)
(* numbered faultAt (0: none) signals a fault. *)
RECURSIVE RunAlone(_, _, _)
RunAlone(tabela, st, faultAt) ==
    IF st.pc = "done" THEN st
    ELSE IF LoopContinues(st)
    THEN RunAlone(tabela,
                  ListAllPaginateTurn(tabela, st, Len(st.calls) + 1 = faultAt),
                  faultAt)
    ELSE ListAllPaginateEnd(st)

ListAllPaginateAlone(tabela, faultAt) ==
    RunAlone(tabela, ListAllPaginateFirst(tabela, faultAt = 1), faultAt)

---------------------------------------------------------------------------
(* Properties. *)
DynamoOps ==
    {"get", "getByIndex", "listAll", "getFirstRegistry", "getLastRegistry",
     "scanFilter", "countQuery", "listAllPaginate", "scanPaginate"}

NothingFound == PyDict(<<"lastKey", "results">>, <<PyNone, PyList(<<>>)>>)

(* The records of all pages, in order, as the caller is to see them. *)
AllRecords(pgs) == Normalize(PyList(Flatten(pgs)))

MinOf(S) == CHOOSE x \in S : \A y \in S : x <= y
MaxOf(S) == CHOOSE x \in S : \A y \in S : x >= y

(* Whether a decimal has no fractional part, and what normalized value w   *)
(* stands for backend value v: stated on the numbers, not by conversion.   *)
Integral(v) == v.exp >= 0 \/ v.coeff % Pow10(-v.exp) = 0

RECURSIVE Conforms(_, _)
Conforms(v, w) ==
    CASE v.kind = "decimal" ->
            IF Integral(v)
            THEN /\ w.kind = "int"
                 /\ w.n * Pow10(-v.exp) = v.coeff * Pow10(v.exp)
            ELSE /\ w.kind = "float"
                 /\ w.exp <= 0
                 /\ w.coeff * Pow10(-v.exp) = v.coeff * Pow10(-w.exp)
      [] v.kind = "list" ->
            /\ w.kind = "list"
            /\ Len(w.items) = Len(v.items)
            /\ \A i \in 1..Len(v.items) : Conforms(v.items[i], w.items[i])
      [] v.kind = "dict" ->
            /\ w.kind = "dict"
            /\ w.keys = v.keys
            /\ \A i \in 1..Len(v.vals) : Conforms(v.vals[i], w.vals[i])
      [] OTHER -> w = v

(* C1: a listAllPaginate call that meets no fault returns the records of   *)
(* all pages P1..Pn in order, after exactly n queries, each query after    *)
(* the first starting at the key the previous answer carried.  Stated for  *)
(* the backends that hold a record, where False cannot stand for "no       *)
(* record".                                                                *)
C1_PaginationComplete ==
    (op = "listAllPaginate" /\ pc = "done" /\ ~faulted /\ Flatten(pages) # <<>>) =>
        /\ result = AllRecords(pages)
        /\ Len(calls) = Len(pages)
        /\ \A k \in 2..Len(calls) :
              /\ k - 1 <= Len(replies)
              /\ calls[k].ExclusiveStartKey = replies[k - 1].LastEvaluatedKey

(* C2: whenever a backend call of a document-store operation signals a     *)
(* fault, the operation returns its failure result; no exception leaves    *)
(* the operation.                                                          *)
C2_NoFaultPropagates ==
    (op \in DynamoOps /\ pc \in {"done", "returned"} /\ faulted) =>
        result = IF op = "scanPaginate" THEN NothingFound ELSE False

(* C3: a scanPaginate call that is answered makes exactly one query; when  *)
(* the answer holds items, the returned key is the answer's continuation   *)
(* key unmodified (None when there is none) and the results are the        *)
(* normalized items of that one page.                                      *)
C3_ScanSinglePage ==
    (op = "scanPaginate" /\ pc = "returned" /\ ~faulted) =>
        LET asked == QueryArgs(FALSE, args.limit,
                               IF lastKey = PyNone THEN Absent ELSE lastKey, "ALL")
            page == Query(pages, asked)
        IN  /\ Len(calls) = 1
            /\ calls[1] = asked
            /\ Len(page.Items.items) > 0 =>
                  /\ result.vals[2].items = Normalize(page.Items).items
                  /\ Conforms(page.Items, result.vals[2])
                  /\ page.LastEvaluatedKey # Absent =>
                        result.vals[1] = page.LastEvaluatedKey
            /\ page.LastEvaluatedKey = Absent => result.vals[1] = PyNone

C3_Witness ==
    /\ op = "scanPaginate" /\ pc = "returned" /\ ~faulted
    /\ lastKey # PyNone
    /\ response.LastEvaluatedKey # Absent
    /\ Len(result.vals[2].items) = 2
    /\ result.vals[1] = response.LastEvaluatedKey

(* C4: get returns False with one error entry on a backend fault, False    *)
(* with one warning entry when the answer holds no item, and the           *)
(* normalized record with no entry when it holds one.                      *)
C4_GetFailureConversion ==
    (op = "get" /\ pc = "done") =>
        /\ faulted => (result = False /\ log = <<"error">>)
        /\ (~faulted /\ args.key \notin SortKeys(pages)) =>
              (result = False /\ log = <<"warning">>)
        /\ (~faulted /\ args.key \in SortKeys(pages)) =>
              (Conforms(Item(args.key), result) /\ log = <<>>)

C4_Witness ==
    /\ op = "get" /\ pc = "done" /\ ~faulted
    /\ args.key \notin SortKeys(pages)
    /\ SortKeys(pages) # {}
    /\ log = <<"warning">>

(* C5 as stated: countQuery and count both return the integer 0 when the   *)
(* backend succeeds and counts no row.                                     *)
C5_CountReturnsZero ==
    (pc = "done" /\ ~faulted) =>
        /\ (op = "countQuery" /\ response.Count = PyInt(0)) => result = PyInt(0)
        /\ (op = "count" /\ args.rows = 0) => result = PyInt(0)

(* C5 amended: on a count of zero countQuery returns the integer 0 and     *)
(* count returns one row whose total is 0; neither is the failure result,  *)
(* which is returned only on a fault or, for countQuery, when the answer   *)
(* carries no Count.                                                       *)
C5_CountDistinguished ==
    pc = "done" =>
        /\ op = "countQuery" =>
              /\ (~faulted /\ response.Count # Absent) =>
                    /\ result = PyInt(Len(pages[1]))
                    /\ result # False
              /\ result = False => (faulted \/ response.Count = Absent)
        /\ op = "count" =>
              /\ ~faulted =>
                    /\ result = PyList(<<PyDict(<<"total">>, <<PyInt(args.rows)>>)>>)
                    /\ result # PyList(<<>>)
              /\ result = PyList(<<>>) => faulted

C5_Witness ==
    /\ op = "countQuery" /\ pc = "done" /\ ~faulted
    /\ response.Count = PyInt(0)
    /\ result = PyInt(0)

(* C6: filter asks for LIMIT limite_por_pagina OFFSET (pagina - 1) *       *)
(* limite_por_pagina and, of n selected rows, returns rows                 *)
(* (pagina - 1) * limite_por_pagina + 1 to min(pagina * limite_por_pagina, *)
(* n) in order, none when the offset is at or past n.                      *)
C6_PagingWindow ==
    (op = "filter" /\ pc = "done" /\ ~faulted) =>
        LET first == (args.pagina - 1) * args.limit + 1
            last == Min(args.pagina * args.limit, args.rows)
        IN  /\ query.limit = args.limit
            /\ query.offset = first - 1
            /\ result.kind = "list"
            /\ Len(result.items) = Max(0, last - first + 1)
            /\ \A i \in 1..Len(result.items) :
                  result.items[i] = PyDict(<<"id">>, <<PyInt(first + i - 1)>>)
            /\ first - 1 >= args.rows => result = PyList(<<>>)

C6_Witness ==
    /\ op = "filter" /\ pc = "done" /\ ~faulted
    /\ args.pagina = 2 /\ args.limit = 5 /\ args.rows = 12
    /\ result = PyList([i \in 1..5 |-> PyDict(<<"id">>, <<PyInt(5 + i)>>)])

C8_Normalization ==
    /\ cstage \in {"once", "twice"} => Conforms(raw, once)
    /\ cstage = "twice" => twice = once

C8_Witness ==
    /\ cstage = "twice"
    /\ raw = PyList(<<PyDict(<<"valor">>, <<Dec(10, -1)>>), Dec(-25, -2)>>)
    /\ once = PyList(<<PyDict(<<"valor">>, <<PyInt(1)>>), PyFloat(-25, -2)>>)
    /\ twice = once

(* C9: every interleaved invocation ends with the result, the log and the  *)
(* backend calls it has when run alone against the same backend.           *)
C9_NoInterference ==
    \A p \in Procs :
        cframe[p].pc = "done" =>
            /\ cop[p] = "listAllPaginate" =>
                  cframe[p] =
                      ListAllPaginateAlone(
                          cpages,
                          IF cframe[p].faulted THEN Len(cframe[p].calls) ELSE 0)
            /\ cop[p] = "scanPaginate" =>
                  cframe[p] =
                      ScanPaginateCall(cpages, cinput[p], ConcMaxPageLen,
                                       cframe[p].faulted)

C9_Witness ==
    /\ cop[1] = "listAllPaginate" /\ cop[2] = "listAllPaginate"
    /\ cframe[1].pc = "loop" /\ Len(cframe[1].calls) = 2
    /\ cframe[2].pc = "done" /\ Len(cframe[2].calls) = 3 /\ ~cframe[2].faulted
    /\ Len(cframe[2].result.items) = 3

(* C10: a caller that feeds the returned key back until it is None, and    *)
(* meets no fault, stops having received every record of P1..Pn once and   *)
(* in order, after n calls when no page was cut by the limit, and the last *)
(* answer carried no continuation key.  Stated for the backends whose last *)
(* page holds a record.                                                    *)
C10_CallerDrivenComplete ==
    (op = "scanPaginate" /\ pc = "done" /\ ~faulted /\ pages[Len(pages)] # <<>>) =>
        /\ received = AllRecords(pages).items
        /\ args.limit >= MaxPageLen => rounds = Len(pages)
        /\ response.LastEvaluatedKey = Absent

===========================================================================
